---- MODULE Spec2Model ----
(***************************************************************************)
(* HydraMesh head controller (head_controller.py): the worker registry,    *)
(* the pending-request tracker, the dispatcher's datagram handlers and the *)
(* maintenance thread.  Wall-clock time is an integer clock `now`; every   *)
(* time.time() call of one handler reads the same value.                   *)
(* Spec, ChunkSpec, FaultSpec and StrangerSpec take each handler and each   *)
(* maintenance sweep as one step; ThreadSpec takes them call by call, with  *)
(* shutdown(); EndpointSpec follows the received-message counters, which    *)
(* the other specifications leave out; CodecSpec is the message codec.      *)
(***************************************************************************)
EXTENDS Integers, Sequences, FiniteSets, TLC

\* ---------------------------------------------------------------- bounds
\* The clock stops at MaxTime.
MaxTime == 2
\* Clients get at most this many TASKs accepted and forwarded in a run.
MaxTasks == 2
\* The received-message counter is followed up to this many datagrams.
MaxReceived == 4

\* ------------------------------------------------- program configuration
\* DCF_WORKER_TIMEOUT, DCF_REQUEST_TIMEOUT and DCF_MAX_PENDING are read from
\* the environment; the model runs the controller configured with these
\* timeouts, and with each of these capacities.
WORKER_TIMEOUT == 2
REQUEST_TIMEOUT == 1
MAX_PENDING_REQUESTS == {1, 2}
\* The port a worker listens on and announces in its heartbeats.
LISTEN_PORT == 7779
\* The size of the message header.
HEADER_SIZE == 17
\* The age after which a chunk assembler is stale.
CHUNK_TIMEOUT == 1

\* The sequence numbers clients pick.
Seqs == {1, 2, 3}
\* The sequence numbers the client of the chunking worker picks.
ChunkSeqs == {1, 2}
WorkerIps == {"10.0.0.1", "10.0.0.2"}
WorkerAddrs == {<<ip, LISTEN_PORT>> : ip \in WorkerIps}
\* The source addresses heartbeats arrive from; the source port need not be
\* the port the worker listens on.
HeartbeatSources == {<<ip, 40000>> : ip \in WorkerIps} \cup {<<"10.0.0.1", 40001>>}
\* A sender on the worker endpoint that no TASK was forwarded to.
StrangerAddrs == {<<"10.0.0.2", 7779>>}
ClientAddrs == {<<"10.0.1.1", 5000>>, <<"10.0.1.2", 5000>>}

\* Payloads are byte strings: sequences of byte values.
TaskPayloads == {<<104, 105>>}
ResultPayloads == {<<72, 73>>}
WorkerErrorPayloads == {<<0, 9, 33>>}
\* str(LISTEN_PORT).encode() = b"7779", and a payload int() rejects.
HeartbeatPayloads == {<<55, 55, 55, 57>>, <<120>>}
\* The same, and b"70000": a decimal integer that is no port.
FaultHeartbeatPayloads == {<<55, 55, 55, 57>>, <<55, 48, 48, 48, 48>>, <<120>>}

\* ---------------------------------------------------------------- state
VARIABLES
    now,        \* time.time()
    workers,    \* WorkerRegistry._workers, in insertion order
    rr_index,   \* WorkerRegistry._rr_index
    requests,   \* RequestTracker._requests: sequence -> PendingRequest
    max_pending, \* RequestTracker._max_pending
    running,    \* the main loop of _run is alive
    inflight,   \* TASKs forwarded to workers and not answered yet
    accepted,   \* how many TASKs were forwarded so far
    out,        \* the datagrams the last step sent
    metrics,    \* HeadController.metrics: tasks_processed, tasks_failed
    chunk_assemblers, \* HeadController._chunk_assemblers
    wire,       \* CHUNK datagrams workers have sent, not received yet
    codec,      \* a message, its serialization, and what decodes from it
    received_metrics, \* HeadController.metrics: messages_received, bytes_received
    shutdown,   \* HeadController._shutdown is set
    threads     \* where the main thread and the maintenance thread are

vars == <<now, workers, rr_index, requests, max_pending, running, inflight,
          accepted, out, metrics, chunk_assemblers, wire, codec,
          received_metrics, shutdown, threads>>

\* Optional[T]: None is the empty tuple, a value x is <<x>>.
None == <<>>
Some(x) == <<x>>

\* NodeMetrics() counts nothing received yet.
NoneReceived == [messages_received |-> 0, bytes_received |-> 0]

\* The main thread is between two datagrams, at the top of the loop of _run,
\* and the maintenance thread is in its sleep.
BetweenSteps ==
    [main |-> [at |-> "poll", msg |-> <<>>, local |-> <<>>],
     maintenance |-> [at |-> "sleep", stale_chunks |-> {}]]

\* ------------------------------------------------------------ the codec
\* DCFMessage.result / .task / .error build a message of the given type;
\* the timestamp is not modelled.
DCFMessage(msg_type, sequence, payload) ==
    [msg_type |-> msg_type, sequence |-> sequence, payload |-> payload]

\* ErrorCode: the two leading bytes of an ERROR payload.
ErrorCodeBytes(code) ==
    CASE code = "NO_WORKERS" -> <<0, 1>>
      [] code = "WORKER_BUSY" -> <<0, 2>>

\* DCFMessage.error(sequence, code, text): the text is not modelled.
DCFMessage_error(sequence, code) ==
    DCFMessage("ERROR", sequence, ErrorCodeBytes(code))

\* A datagram handed to an endpoint's send: which socket, to whom, what.
Datagram(sock, addr, msg) == [sock |-> sock, to |-> addr, msg |-> msg]

\* EventDrivenUDPSocket.send_chunked for a payload that fits one datagram:
\* the message itself, as one datagram of its own type.
send_chunked(sock, msg, addr) == <<Datagram(sock, addr, msg)>>

\* int(payload.decode('utf-8')) for ASCII digit strings; None is ValueError.
RECURSIVE DecimalValue(_)
DecimalValue(bytes) ==
    IF bytes = <<>> THEN 0
    ELSE 10 * DecimalValue(SubSeq(bytes, 1, Len(bytes) - 1))
         + (bytes[Len(bytes)] - 48)

ParseInt(bytes) ==
    IF Len(bytes) > 0 /\ \A i \in 1..Len(bytes) : bytes[i] \in 48..57
    THEN Some(DecimalValue(bytes))
    ELSE None

\* An unsigned integer as n big-endian bytes (struct.pack ">B", ">I", ">Q").
RECURSIVE ToBytes(_, _)
ToBytes(v, n) ==
    IF n = 0 THEN <<>> ELSE Append(ToBytes(v \div 256, n - 1), v % 256)

\* Big-endian bytes as an unsigned integer (struct.unpack).
RECURSIVE FromBytes(_)
FromBytes(bytes) ==
    IF bytes = <<>> THEN 0
    ELSE 256 * FromBytes(SubSeq(bytes, 1, Len(bytes) - 1)) + bytes[Len(bytes)]

\* The dataclass DCFMessage with all four fields.
Message(msg_type, sequence, timestamp, payload) ==
    [msg_type |-> msg_type, sequence |-> sequence, timestamp |-> timestamp,
     payload |-> payload]

serialize(m) ==
    LET payload_len == Len(m.payload)
        header == ToBytes(m.msg_type, 1) \o ToBytes(m.sequence, 4)
                  \o ToBytes(m.timestamp, 8) \o ToBytes(payload_len, 4)
    IN  header \o m.payload

\* deserialize that takes the payload from one byte too early.
deserialize_off_by_one(data) ==
    IF Len(data) < HEADER_SIZE THEN None
    ELSE LET payload_len == FromBytes(SubSeq(data, 14, 17))
         IN  IF Len(data) < HEADER_SIZE + payload_len THEN None
             ELSE Some([msg_type |-> FromBytes(SubSeq(data, 1, 1)),
                        sequence |-> FromBytes(SubSeq(data, 2, 5)),
                        timestamp |-> FromBytes(SubSeq(data, 6, 13)),
                        payload |-> SubSeq(data, HEADER_SIZE,
                                           HEADER_SIZE + payload_len - 1)])

deserialize(data) ==
    IF Len(data) < HEADER_SIZE THEN None
    ELSE LET msg_type == FromBytes(SubSeq(data, 1, 1))
             sequence == FromBytes(SubSeq(data, 2, 5))
             timestamp == FromBytes(SubSeq(data, 6, 13))
             payload_len == FromBytes(SubSeq(data, 14, 17))
         IN  IF Len(data) < HEADER_SIZE + payload_len THEN None
             ELSE Some(Message(msg_type, sequence, timestamp,
                               SubSeq(data, HEADER_SIZE + 1,
                                      HEADER_SIZE + payload_len)))

\* --------------------------------------------------------------- chunks
\* The fingerprint of a payload carried in every chunk of it: the sum of its
\* bytes modulo 65521.
RECURSIVE ByteSum(_)
ByteSum(bytes) ==
    IF bytes = <<>> THEN 0
    ELSE ByteSum(SubSeq(bytes, 1, Len(bytes) - 1)) + bytes[Len(bytes)]

Checksum(bytes) == ByteSum(bytes) % 65521

\* The payload of a CHUNK: total_chunks u32, index u32, checksum u32, data.
ChunkPayload(total, idx, checksum, data) ==
    ToBytes(total, 4) \o ToBytes(idx, 4) \o ToBytes(checksum, 4) \o data

\* parse_chunk(msg); None stands for the exception a payload shorter than the
\* three fields raises.
parse_chunk(msg) ==
    IF Len(msg.payload) < 12 THEN None
    ELSE Some([total |-> FromBytes(SubSeq(msg.payload, 1, 4)),
               idx |-> FromBytes(SubSeq(msg.payload, 5, 8)),
               checksum |-> FromBytes(SubSeq(msg.payload, 9, 12)),
               data |-> SubSeq(msg.payload, 13, Len(msg.payload))])

ChunkAssembler(total_chunks, checksum, t) ==
    [total_chunks |-> total_chunks, checksum |-> checksum,
     received |-> <<>>, created_at |-> t]

\* ChunkAssembler.add_chunk: stores the data at its index; the assembler is
\* complete when it holds total_chunks indices.
add_chunk(asm, idx, data) ==
    LET received == [i \in DOMAIN asm.received \cup {idx} |->
                        IF i = idx THEN data ELSE asm.received[i]]
    IN  [assembler |-> [asm EXCEPT !.received = received],
         complete |-> Cardinality(DOMAIN received) = asm.total_chunks]

\* The received chunks concatenated in index order, from index i on.
RECURSIVE Concatenation(_, _)
Concatenation(asm, i) ==
    IF i >= asm.total_chunks THEN <<>>
    ELSE (IF i \in DOMAIN asm.received THEN asm.received[i] ELSE <<>>)
         \o Concatenation(asm, i + 1)

\* ChunkAssembler.assemble: the payload, or None when the checksum fails.
assemble(asm) ==
    LET payload == Concatenation(asm, 0)
    IN  IF Checksum(payload) = asm.checksum THEN Some(payload) ELSE None

\* ChunkAssembler.is_stale.
is_stale(asm, t) == t - asm.created_at > CHUNK_TIMEOUT

\* ------------------------------------------------------- WorkerRegistry
WorkerInfo(addr, t) ==
    [addr |-> addr, last_heartbeat |-> t, tasks_completed |-> 0,
     tasks_failed |-> 0, avg_latency_ms |-> <<0, 1>>, current_task |-> None]

\* is_healthy comparing with <= : a worker exactly WORKER_TIMEOUT old counts as
\* healthy.
is_healthy_le(w, t) == t - w.last_heartbeat <= WORKER_TIMEOUT

is_healthy(w, t) == t - w.last_heartbeat < WORKER_TIMEOUT

is_busy(w) == w.current_task # None

IndexOf(ws, addr) == CHOOSE i \in 1..Len(ws) : ws[i].addr = addr

Registered(ws, addr) == \E i \in 1..Len(ws) : ws[i].addr = addr

\* register that replaces the record of a worker it already knows.
register_replaces(ws, addr, t) ==
    IF ~(\E i \in 1..Len(ws) : ws[i].addr = addr)
    THEN Append(ws, WorkerInfo(addr, t))
    ELSE [ws EXCEPT ![CHOOSE i \in 1..Len(ws) : ws[i].addr = addr] =
                        WorkerInfo(addr, t)]

register(ws, addr, t) ==
    IF ~Registered(ws, addr)
    THEN Append(ws, WorkerInfo(addr, t))
    ELSE [ws EXCEPT ![IndexOf(ws, addr)].last_heartbeat = t]

Healthy(ws, t) == SelectSeq(ws, LAMBDA w : is_healthy(w, t))

\* get_worker without the health filter: every registered worker is a
\* candidate.
get_worker_unfiltered(ws, rr, t, prefer_idle) ==
    LET idle == SelectSeq(ws, LAMBDA w : ~is_busy(w))
        next == (rr + 1) % Len(ws)
    IN  IF ws = <<>>
        THEN [addr |-> None, rr_index |-> rr, raised |-> FALSE]
        ELSE IF prefer_idle /\ idle # <<>>
        THEN [addr |-> Some(idle[1].addr), rr_index |-> rr, raised |-> FALSE]
        ELSE [addr |-> Some(ws[next + 1].addr), rr_index |-> next,
              raised |-> FALSE]

\* get_worker keeping the round-robin index as a plain counter that is not
\* reduced modulo the healthy set before the lookup.
get_worker_no_modulo(ws, rr, t, prefer_idle) ==
    LET healthy == SelectSeq(ws, LAMBDA w : t - w.last_heartbeat < WORKER_TIMEOUT)
        idle == SelectSeq(healthy, LAMBDA w : ~is_busy(w))
        next == rr + 1
    IN  IF healthy = <<>>
        THEN [addr |-> None, rr_index |-> rr, raised |-> FALSE]
        ELSE IF prefer_idle /\ idle # <<>>
        THEN [addr |-> Some(idle[1].addr), rr_index |-> rr, raised |-> FALSE]
        ELSE IF next + 1 \in 1..Len(healthy)
        THEN [addr |-> Some(healthy[next + 1].addr), rr_index |-> next,
              raised |-> FALSE]
        ELSE [addr |-> None, rr_index |-> next, raised |-> TRUE]

\* get_worker that ignores prefer_idle and always takes the round-robin slot.
get_worker_ignore_idle(ws, rr, t, prefer_idle) ==
    LET healthy == SelectSeq(ws, LAMBDA w : t - w.last_heartbeat < WORKER_TIMEOUT)
        next == (rr + 1) % Len(healthy)
    IN  IF healthy = <<>>
        THEN [addr |-> None, rr_index |-> rr, raised |-> FALSE]
        ELSE [addr |-> Some(healthy[next + 1].addr), rr_index |-> next,
              raised |-> FALSE]

\* get_worker that advances the round-robin index also when it finds no
\* healthy worker.
get_worker_counts_none(ws, rr, t, prefer_idle) ==
    LET healthy == SelectSeq(ws, LAMBDA w : t - w.last_heartbeat < WORKER_TIMEOUT)
        idle == SelectSeq(healthy, LAMBDA w : w.current_task = <<>>)
        next == (rr + 1) % Len(healthy)
    IN  IF healthy = <<>>
        THEN [addr |-> <<>>, rr_index |-> (rr + 1) % 2, raised |-> FALSE]
        ELSE IF prefer_idle /\ idle # <<>>
        THEN [addr |-> <<idle[1].addr>>, rr_index |-> rr, raised |-> FALSE]
        ELSE IF next + 1 \in 1..Len(healthy)
        THEN [addr |-> <<healthy[next + 1].addr>>, rr_index |-> next,
              raised |-> FALSE]
        ELSE [addr |-> <<>>, rr_index |-> next, raised |-> TRUE]

\* Returns the picked address (or None), the round-robin index it leaves, and
\* whether healthy[self._rr_index] raised IndexError.
get_worker(ws, rr, t, prefer_idle) ==
    LET healthy == Healthy(ws, t)
        idle == SelectSeq(healthy, LAMBDA w : ~is_busy(w))
        next == (rr + 1) % Len(healthy)
    IN  IF healthy = <<>>
        THEN [addr |-> None, rr_index |-> rr, raised |-> FALSE]
        ELSE IF prefer_idle /\ idle # <<>>
        THEN [addr |-> Some(idle[1].addr), rr_index |-> rr, raised |-> FALSE]
        ELSE IF next + 1 \in 1..Len(healthy)
        THEN [addr |-> Some(healthy[next + 1].addr), rr_index |-> next,
              raised |-> FALSE]
        ELSE [addr |-> None, rr_index |-> next, raised |-> TRUE]

\* assign_task that does not mark the worker busy.
assign_task_skip(ws, addr, sequence) == ws

assign_task(ws, addr, sequence) ==
    IF Registered(ws, addr)
    THEN [ws EXCEPT ![IndexOf(ws, addr)].current_task = Some(sequence)]
    ELSE ws

\* avg_latency_ms is the exact fraction <<numerator, denominator>>.
RollingAverage(avg, n, latency_ms) ==
    <<(n - 1) * avg[1] + latency_ms * avg[2], n * avg[2]>>

\* complete_task that counts a failed task as completed as well.
complete_task_counts_failure(ws, addr, latency_ms, success) ==
    IF ~(\E i \in 1..Len(ws) : ws[i].addr = addr) THEN ws
    ELSE LET i == CHOOSE k \in 1..Len(ws) : ws[k].addr = addr
             n == ws[i].tasks_completed + 1
         IN  IF success
             THEN [ws EXCEPT ![i].current_task = <<>>,
                             ![i].tasks_completed = n,
                             ![i].avg_latency_ms =
                                 <<(n - 1) * ws[i].avg_latency_ms[1]
                                      + latency_ms * ws[i].avg_latency_ms[2],
                                   n * ws[i].avg_latency_ms[2]>>]
             ELSE [ws EXCEPT ![i].current_task = <<>>,
                             ![i].tasks_completed = n,
                             ![i].tasks_failed = ws[i].tasks_failed + 1]

complete_task(ws, addr, latency_ms, success) ==
    IF ~Registered(ws, addr) THEN ws
    ELSE LET i == IndexOf(ws, addr)
             n == ws[i].tasks_completed + 1
         IN  IF success
             THEN [ws EXCEPT ![i].current_task = None,
                             ![i].tasks_completed = n,
                             ![i].avg_latency_ms =
                                 RollingAverage(ws[i].avg_latency_ms, n, latency_ms)]
             ELSE [ws EXCEPT ![i].current_task = None,
                             ![i].tasks_failed = ws[i].tasks_failed + 1]

prune_stale(ws, t) ==
    LET stale == SelectSeq(ws, LAMBDA w : ~is_healthy(w, t))
    IN  [workers |-> SelectSeq(ws, LAMBDA w : is_healthy(w, t)),
         count |-> Len(stale)]

\* WorkerRegistry.get_stats: the snapshot; the address and the latency are
\* kept as they are stored, not formatted.
get_stats(ws, t) ==
    LET healthy == SelectSeq(ws, LAMBDA w : is_healthy(w, t))
        busy == SelectSeq(healthy, LAMBDA w : is_busy(w))
    IN  [total_workers |-> Len(ws),
         healthy_workers |-> Len(healthy),
         busy_workers |-> Len(busy),
         workers |-> [i \in 1..Len(ws) |->
                         [addr |-> ws[i].addr,
                          healthy |-> is_healthy(ws[i], t),
                          busy |-> is_busy(ws[i]),
                          tasks_completed |-> ws[i].tasks_completed,
                          avg_latency_ms |-> ws[i].avg_latency_ms]]]

\* ------------------------------------------------------- RequestTracker
PendingRequest(client_addr, worker_addr, t, payload_size) ==
    [client_addr |-> client_addr, worker_addr |-> worker_addr,
     created_at |-> t, payload_size |-> payload_size]

\* is_expired comparing with >= : a request exactly REQUEST_TIMEOUT old counts
\* as expired.
is_expired_ge(req, t) == t - req.created_at >= REQUEST_TIMEOUT

is_expired(req, t) == t - req.created_at > REQUEST_TIMEOUT

\* add with the capacity test off by one (> instead of >=).
add_off_by_one(reqs, sequence, client_addr, worker_addr, payload_size, t) ==
    IF Cardinality(DOMAIN reqs) > max_pending
    THEN [ok |-> FALSE, requests |-> reqs]
    ELSE [ok |-> TRUE,
          requests |->
              [s \in DOMAIN reqs \cup {sequence} |->
                  IF s = sequence
                  THEN [client_addr |-> client_addr, worker_addr |-> worker_addr,
                        created_at |-> t, payload_size |-> payload_size]
                  ELSE reqs[s]]]

\* add that refuses at capacity only when the sequence is new, and otherwise
\* replaces the record.
add_replace_when_full(reqs, sequence, client_addr, worker_addr, payload_size, t) ==
    IF Cardinality(DOMAIN reqs) >= max_pending /\ sequence \notin DOMAIN reqs
    THEN [ok |-> FALSE, requests |-> reqs]
    ELSE [ok |-> TRUE,
          requests |->
              [s \in DOMAIN reqs \cup {sequence} |->
                  IF s = sequence
                  THEN [client_addr |-> client_addr, worker_addr |-> worker_addr,
                        created_at |-> t, payload_size |-> payload_size]
                  ELSE reqs[s]]]

add(reqs, sequence, client_addr, worker_addr, payload_size, t) ==
    IF Cardinality(DOMAIN reqs) >= max_pending
    THEN [ok |-> FALSE, requests |-> reqs]
    ELSE [ok |-> TRUE,
          requests |->
              [s \in DOMAIN reqs \cup {sequence} |->
                  IF s = sequence
                  THEN PendingRequest(client_addr, worker_addr, t, payload_size)
                  ELSE reqs[s]]]

\* complete that returns the record and leaves it in the tracker.
complete_keeps_record(reqs, sequence) ==
    IF sequence \in DOMAIN reqs
    THEN [request |-> <<reqs[sequence]>>, requests |-> reqs]
    ELSE [request |-> <<>>, requests |-> reqs]

complete(reqs, sequence) ==
    IF sequence \in DOMAIN reqs
    THEN [request |-> Some(reqs[sequence]),
          requests |-> [s \in DOMAIN reqs \ {sequence} |-> reqs[s]]]
    ELSE [request |-> None, requests |-> reqs]

\* cleanup_expired that counts the expired requests and deletes none.
cleanup_expired_count_only(reqs, t) ==
    [requests |-> reqs,
     count |-> Cardinality({s \in DOMAIN reqs : t - reqs[s].created_at > REQUEST_TIMEOUT})]

cleanup_expired(reqs, t) ==
    LET expired == {s \in DOMAIN reqs : is_expired(reqs[s], t)}
    IN  [requests |-> [s \in DOMAIN reqs \ expired |-> reqs[s]],
         count |-> Cardinality(expired)]

Init ==
    /\ now = 0
    /\ workers = <<>>
    /\ rr_index = 0
    /\ requests = <<>>
    /\ max_pending \in MAX_PENDING_REQUESTS
    /\ running = TRUE
    /\ inflight = {}
    /\ accepted = 0
    /\ out = <<>>
    /\ metrics = [tasks_processed |-> 0, tasks_failed |-> 0]
    /\ chunk_assemblers = <<>>
    /\ wire = {}
    /\ received_metrics = NoneReceived
    /\ shutdown = FALSE
    /\ threads = BetweenSteps
    /\ codec = <<>>

\* The clock advances.
Tick ==
    /\ now < MaxTime
    /\ now' = now + 1
    /\ out' = <<>>
    /\ UNCHANGED <<workers, rr_index, requests, max_pending, running, inflight,
                   accepted, metrics, chunk_assemblers, wire, codec,
                   received_metrics, shutdown, threads>>

\* _process_internal on a HEARTBEAT: _handle_heartbeat.
HandleHeartbeat(addr, payload) ==
    LET worker_port == ParseInt(payload)
    IN  /\ running
        /\ workers' = IF worker_port = None THEN workers
                      ELSE register(workers, <<addr[1], worker_port[1]>>, now)
        /\ out' = <<>>
        /\ UNCHANGED <<now, rr_index, requests, max_pending, running, inflight,
                       accepted, metrics, chunk_assemblers, wire, codec,
                   shutdown, threads>>

\* A TASK a worker has been sent: the forwarded datagram's sequence and
\* destination, and, to tell whose task an answer belongs to, the client that
\* submitted it, when it was forwarded and whether the expiry sweep has
\* removed its pending request.
Forwarded(sequence, worker_addr, client_addr, t) ==
    [sequence |-> sequence, worker |-> worker_addr, origin |-> client_addr,
     sent_at |-> t, swept |-> FALSE]

\* The tracker's record for the forwarded TASK t is still the pending one.
IsPending(t, reqs) ==
    /\ t.sequence \in DOMAIN reqs
    /\ reqs[t.sequence].client_addr = t.origin
    /\ reqs[t.sequence].worker_addr = t.worker
    /\ reqs[t.sequence].created_at = t.sent_at

\* socket.sendto raises (OverflowError) for a port outside 0..65535, and the
\* endpoint's send does not catch it.
SendRaises(addr) == addr[2] \notin 0..65535

\* _process_client on a TASK: _handle_task.
HandleTask(sequence, payload, client_addr) ==
    LET pick == get_worker(workers, rr_index, now, TRUE)
        worker_addr == pick.addr
        added == add(requests, sequence, client_addr, worker_addr[1],
                     Len(payload), now)
    IN  /\ running
        /\ rr_index' = pick.rr_index
        /\ IF pick.raised
           THEN /\ running' = FALSE
                /\ out' = <<>>
                /\ UNCHANGED <<workers, requests, inflight, accepted>>
           ELSE IF worker_addr = None
           THEN /\ out' = <<Datagram("client", client_addr,
                                     DCFMessage_error(sequence, "NO_WORKERS"))>>
                /\ UNCHANGED <<workers, requests, running, inflight, accepted>>
           ELSE IF ~added.ok
           THEN /\ out' = <<Datagram("client", client_addr,
                                     DCFMessage_error(sequence, "WORKER_BUSY"))>>
                /\ UNCHANGED <<workers, requests, running, inflight, accepted>>
           ELSE /\ requests' = added.requests
                /\ workers' = assign_task(workers, worker_addr[1], sequence)
                /\ IF SendRaises(worker_addr[1])
                   THEN /\ running' = FALSE
                        /\ out' = <<>>
                        /\ UNCHANGED <<inflight, accepted>>
                   ELSE /\ out' = <<Datagram("internal", worker_addr[1],
                                             DCFMessage("TASK", sequence, payload))>>
                        /\ inflight' = inflight \cup
                               {Forwarded(sequence, worker_addr[1], client_addr, now)}
                        /\ accepted' = accepted + 1
                        /\ UNCHANGED running
        /\ UNCHANGED <<now, max_pending, metrics, chunk_assemblers, wire, codec,
                   shutdown, threads>>

\* The body of _handle_result: what it does to the tracker, the registry, the
\* counters and the client endpoint.
handle_result(sequence, payload) ==
    LET done == complete(requests, sequence)
        request == done.request
        latency_ms == (now - request[1].created_at) * 1000
    IN  /\ requests' = done.requests
        /\ IF request = None
           THEN /\ out' = <<>>
                /\ UNCHANGED <<workers, metrics>>
           ELSE /\ workers' = complete_task(workers, request[1].worker_addr,
                                            latency_ms, TRUE)
                /\ out' = send_chunked("client",
                                       DCFMessage("RESULT", sequence, payload),
                                       request[1].client_addr)
                /\ metrics' = [metrics EXCEPT !.tasks_processed = @ + 1]

\* _handle_result that drops a RESULT whose sender is not the worker the
\* request was assigned to.
HandleResult_checks_sender(sequence, payload, addr) ==
    /\ running
    /\ IF sequence \in DOMAIN requests /\ requests[sequence].worker_addr # addr
       THEN /\ out' = <<>>
            /\ UNCHANGED <<requests, workers, metrics>>
       ELSE handle_result(sequence, payload)
    /\ UNCHANGED <<now, rr_index, max_pending, running, accepted,
                   chunk_assemblers, wire, codec,
                   shutdown, threads>>

\* _process_internal on a RESULT: _handle_result.
HandleResult(sequence, payload, addr) ==
    /\ running
    /\ handle_result(sequence, payload)
    /\ UNCHANGED <<now, rr_index, max_pending, running, accepted,
                   chunk_assemblers, wire, codec,
                   shutdown, threads>>

\* _process_internal on an ERROR: _handle_worker_error.
HandleWorkerError(sequence, payload, addr) ==
    LET done == complete(requests, sequence)
        request == done.request
    IN  /\ running
        /\ requests' = done.requests
        /\ IF request = None
           THEN /\ out' = <<>>
                /\ UNCHANGED <<workers, metrics>>
           ELSE /\ workers' = complete_task(workers, request[1].worker_addr,
                                            0, FALSE)
                /\ out' = <<Datagram("client", request[1].client_addr,
                                     DCFMessage("ERROR", sequence, payload))>>
                /\ metrics' = [metrics EXCEPT !.tasks_failed = @ + 1]
        /\ UNCHANGED <<now, rr_index, max_pending, running, accepted,
                       chunk_assemblers, wire, codec,
                   shutdown, threads>>

\* _handle_chunk that deletes the assembler only after a successful assembly.
HandleChunk_keeps_failed(msg, addr) ==
    LET parsed == parse_chunk(msg)
        chunk == parsed[1]
        assemblers ==
            IF msg.sequence \in DOMAIN chunk_assemblers THEN chunk_assemblers
            ELSE [s \in DOMAIN chunk_assemblers \cup {msg.sequence} |->
                     IF s = msg.sequence
                     THEN ChunkAssembler(chunk.total, chunk.checksum, now)
                     ELSE chunk_assemblers[s]]
        added == add_chunk(assemblers[msg.sequence], chunk.idx, chunk.data)
        complete_payload == assemble(added.assembler)
    IN  /\ running
        /\ IF parsed = None
           THEN /\ out' = <<>>
                /\ UNCHANGED <<requests, workers, metrics, chunk_assemblers>>
           ELSE IF ~added.complete \/ complete_payload = None
           THEN /\ chunk_assemblers' =
                       [assemblers EXCEPT ![msg.sequence] = added.assembler]
                /\ out' = <<>>
                /\ UNCHANGED <<requests, workers, metrics>>
           ELSE /\ chunk_assemblers' =
                       [s \in DOMAIN assemblers \ {msg.sequence} |-> assemblers[s]]
                /\ IF complete_payload[1] # <<>>
                   THEN handle_result(msg.sequence, complete_payload[1])
                   ELSE /\ out' = <<>>
                        /\ UNCHANGED <<requests, workers, metrics>>
        /\ UNCHANGED <<now, rr_index, max_pending, running, inflight, accepted,
                       codec,
                   shutdown, threads>>

\* _process_internal on a CHUNK: _handle_chunk.
HandleChunk(msg, addr) ==
    LET parsed == parse_chunk(msg)
        chunk == parsed[1]
        assemblers ==
            IF msg.sequence \in DOMAIN chunk_assemblers THEN chunk_assemblers
            ELSE [s \in DOMAIN chunk_assemblers \cup {msg.sequence} |->
                     IF s = msg.sequence
                     THEN ChunkAssembler(chunk.total, chunk.checksum, now)
                     ELSE chunk_assemblers[s]]
        added == add_chunk(assemblers[msg.sequence], chunk.idx, chunk.data)
        complete_payload == assemble(added.assembler)
    IN  /\ running
        /\ IF parsed = None
           THEN /\ out' = <<>>
                /\ UNCHANGED <<requests, workers, metrics, chunk_assemblers>>
           ELSE IF ~added.complete
           THEN /\ chunk_assemblers' =
                       [assemblers EXCEPT ![msg.sequence] = added.assembler]
                /\ out' = <<>>
                /\ UNCHANGED <<requests, workers, metrics>>
           ELSE /\ chunk_assemblers' =
                       [s \in DOMAIN assemblers \ {msg.sequence} |-> assemblers[s]]
                /\ IF complete_payload # None /\ complete_payload[1] # <<>>
                   THEN handle_result(msg.sequence, complete_payload[1])
                   ELSE /\ out' = <<>>
                        /\ UNCHANGED <<requests, workers, metrics>>
        /\ UNCHANGED <<now, rr_index, max_pending, running, inflight, accepted,
                       codec,
                   shutdown, threads>>

\* A worker heartbeats to the worker endpoint.
Heartbeat ==
    \E addr \in HeartbeatSources, payload \in HeartbeatPayloads :
        /\ HandleHeartbeat(addr, payload)
        /\ UNCHANGED received_metrics

\* A client submits a TASK to the client endpoint.
ClientTask ==
    \E sequence \in Seqs, payload \in TaskPayloads, client_addr \in ClientAddrs :
        /\ HandleTask(sequence, payload, client_addr)
        /\ accepted' <= MaxTasks
        /\ UNCHANGED received_metrics

\* The worker that was sent t answers it.
Answered(t) == t \in inflight /\ inflight' = inflight \ {t}

\* A worker answers a TASK it was sent with a RESULT of the same sequence.
WorkerResult ==
    \E t \in inflight, payload \in ResultPayloads :
        /\ Answered(t)
        /\ HandleResult(t.sequence, payload, t.worker)
        /\ UNCHANGED received_metrics

\* A worker answers a TASK it was sent with an ERROR of the same sequence.
WorkerError ==
    \E t \in inflight, payload \in WorkerErrorPayloads :
        /\ Answered(t)
        /\ HandleWorkerError(t.sequence, payload, t.worker)
        /\ UNCHANGED received_metrics

\* send_chunked on the worker for a result payload it splits, here into
\* chunks of one byte: the CHUNK datagrams for the forwarded TASK t, each
\* carrying the number of chunks, its index and the checksum of the whole
\* payload.  With corrupt, the bytes of chunk 1 are damaged on the way.
Chunks(t, payload, corrupt) ==
    {[from |-> t.worker,
      task |-> Forwarded(t.sequence, t.worker, t.origin, t.sent_at),
      payload |-> payload,
      corrupt |-> corrupt,
      msg |-> DCFMessage("CHUNK", t.sequence,
                         ChunkPayload(Len(payload), i, Checksum(payload),
                                      IF corrupt /\ i = 1
                                      THEN <<(payload[i + 1] + 1) % 256>>
                                      ELSE <<payload[i + 1]>>))]
     : i \in 0..(Len(payload) - 1)}

\* A worker answers a TASK it was sent with its result split into CHUNKs.
WorkerChunked ==
    \E t \in inflight, payload \in ResultPayloads, corrupt \in BOOLEAN :
        /\ Answered(t)
        /\ wire' = wire \cup Chunks(t, payload, corrupt)
        /\ out' = <<>>
        /\ UNCHANGED <<now, workers, rr_index, requests, max_pending, running,
                       accepted, metrics, chunk_assemblers, codec,
                   received_metrics, shutdown, threads>>

\* One of the CHUNK datagrams on the way reaches the worker endpoint; they
\* arrive in any order.
ChunkArrives ==
    \E c \in wire :
        /\ wire' = wire \ {c}
        /\ HandleChunk(c.msg, c.from)
        /\ UNCHANGED received_metrics

\* _maintenance_loop: one iteration after the sleep: prune_stale, then
\* cleanup_expired, then the stale chunk assemblers are deleted.
Maintenance ==
    LET stale_chunks == {s \in DOMAIN chunk_assemblers :
                            is_stale(chunk_assemblers[s], now)}
    IN  /\ workers' = prune_stale(workers, now).workers
        /\ requests' = cleanup_expired(requests, now).requests
        /\ chunk_assemblers' = [s \in DOMAIN chunk_assemblers \ stale_chunks |->
                                   chunk_assemblers[s]]
        /\ inflight' = {[t EXCEPT !.swept = t.swept \/ (IsPending(t, requests)
                                                        /\ ~IsPending(t, requests'))]
                        : t \in inflight}
        /\ out' = <<>>
        /\ UNCHANGED <<now, rr_index, max_pending, running, accepted, metrics,
                       wire, codec,
                   received_metrics, shutdown, threads>>

Next ==
    \/ Tick
    \/ Heartbeat
    \/ ClientTask
    \/ WorkerResult
    \/ WorkerError
    \/ Maintenance

Spec == Init /\ [][Next]_vars

\* The clock keeps advancing and the maintenance thread keeps being scheduled.
FairSpec == Spec /\ WF_vars(Tick) /\ WF_vars(Maintenance)

\* The controller with one worker that also answers in chunks, one client,
\* and room for two pending requests.
ChunkInit ==
    /\ now = 0
    /\ workers = <<>>
    /\ rr_index = 0
    /\ requests = <<>>
    /\ max_pending = 2
    /\ running = TRUE
    /\ inflight = {}
    /\ accepted = 0
    /\ out = <<>>
    /\ metrics = [tasks_processed |-> 0, tasks_failed |-> 0]
    /\ chunk_assemblers = <<>>
    /\ wire = {}
    /\ received_metrics = NoneReceived
    /\ shutdown = FALSE
    /\ threads = BetweenSteps
    /\ codec = <<>>

ChunkHeartbeat ==
    /\ HandleHeartbeat(<<"10.0.0.1", 40000>>, <<55, 55, 55, 57>>)
    /\ UNCHANGED received_metrics

ChunkClientTask ==
    \E sequence \in ChunkSeqs, payload \in TaskPayloads :
        /\ HandleTask(sequence, payload, <<"10.0.1.1", 5000>>)
        /\ accepted' <= MaxTasks
        /\ UNCHANGED received_metrics

\* The headers a CHUNK that joins an assembler may carry: the number of chunks
\* and the checksum recorded at the first chunk, or others.
ChunkTotals == {2, 3}

ChunkChecksums == {Checksum(<<72, 73>>), Checksum(<<72, 73>>) + 1}

\* The CHUNK (total, idx, checksum, data) for sequence does not repeat what
\* the assembler of that sequence recorded at its first chunk.
Differs(sequence, total, checksum) ==
    /\ sequence \in DOMAIN chunk_assemblers
    /\ \/ total # chunk_assemblers[sequence].total_chunks
       \/ checksum # chunk_assemblers[sequence].checksum

\* While chunks of a sequence are buffered, a CHUNK of that sequence arrives
\* whose total or checksum is not the recorded one.
DifferingChunk ==
    \E sequence \in ChunkSeqs, total \in ChunkTotals, checksum \in ChunkChecksums :
        /\ Differs(sequence, total, checksum)
        /\ HandleChunk(DCFMessage("CHUNK", sequence,
                                  ChunkPayload(total, 0, checksum, <<72>>)),
                       <<"10.0.0.1", 7779>>)
        /\ UNCHANGED wire
        /\ UNCHANGED received_metrics

ChunkNext ==
    \/ Tick
    \/ ChunkHeartbeat
    \/ ChunkClientTask
    \/ WorkerResult
    \/ WorkerError
    \/ WorkerChunked
    \/ ChunkArrives
    \/ DifferingChunk
    \/ Maintenance

ChunkSpec == ChunkInit /\ [][ChunkNext]_vars

\* The controller with a sender on the worker endpoint that announces any
\* number as its port and sends CHUNKs too short to parse.
FaultHeartbeat ==
    \E payload \in FaultHeartbeatPayloads :
        /\ HandleHeartbeat(<<"10.0.0.1", 40000>>, payload)
        /\ UNCHANGED received_metrics

TruncatedChunk ==
    \E sequence \in Seqs :
        /\ HandleChunk(DCFMessage("CHUNK", sequence, <<0, 0>>), <<"10.0.0.1", 40000>>)
        /\ UNCHANGED wire
        /\ UNCHANGED received_metrics

FaultNext ==
    \/ Tick
    \/ FaultHeartbeat
    \/ ClientTask
    \/ WorkerResult
    \/ WorkerError
    \/ TruncatedChunk
    \/ Maintenance

FaultSpec == Init /\ [][FaultNext]_vars

\* The controller with one worker, one client, and a second sender on the
\* worker endpoint that answers TASKs it was never sent.
\* A sender that is not the assigned worker answers on the worker endpoint
\* with a RESULT, an ERROR, or a result in a single CHUNK, for any sequence.
StrangerResult ==
    \E sequence \in ChunkSeqs, payload \in ResultPayloads, addr \in StrangerAddrs :
        /\ HandleResult(sequence, payload, addr)
        /\ UNCHANGED inflight
        /\ UNCHANGED received_metrics

StrangerError ==
    \E sequence \in ChunkSeqs, payload \in WorkerErrorPayloads, addr \in StrangerAddrs :
        /\ HandleWorkerError(sequence, payload, addr)
        /\ UNCHANGED inflight
        /\ UNCHANGED received_metrics

SingleChunk(sequence, payload) ==
    DCFMessage("CHUNK", sequence, ChunkPayload(1, 0, Checksum(payload), payload))

StrangerChunk ==
    \E sequence \in ChunkSeqs, payload \in ResultPayloads, addr \in StrangerAddrs :
        /\ HandleChunk(SingleChunk(sequence, payload), addr)
        /\ UNCHANGED wire
        /\ UNCHANGED received_metrics

StrangerNext ==
    \/ Tick
    \/ ChunkHeartbeat
    \/ ChunkClientTask
    \/ WorkerResult
    \/ WorkerError
    \/ StrangerResult
    \/ StrangerError
    \/ StrangerChunk
    \/ Maintenance

StrangerSpec == ChunkInit /\ [][StrangerNext]_vars

\* ------------------------------------------------ the two endpoints
\* _handle_health_request: the registry snapshot goes back to the sender in a
\* HEALTH message of the same sequence (the snapshot stands for its JSON).
HandleHealthRequest(sequence, client_addr) ==
    /\ running
    /\ out' = <<Datagram("client", client_addr,
                         DCFMessage("HEALTH", sequence, get_stats(workers, now)))>>
    /\ UNCHANGED <<now, workers, rr_index, requests, max_pending, running,
                   inflight, accepted, metrics, chunk_assemblers, wire, codec,
                   shutdown, threads>>

\* A datagram whose type the endpoint has no branch for.
Ignored ==
    /\ running
    /\ out' = <<>>
    /\ UNCHANGED <<now, workers, rr_index, requests, max_pending, running,
                   inflight, accepted, metrics, chunk_assemblers, wire, codec,
                   shutdown, threads>>

\* metrics.messages_received += 1; metrics.bytes_received += len(msg.payload)
Counted(msg) ==
    [messages_received |-> received_metrics.messages_received + 1,
     bytes_received |-> received_metrics.bytes_received + Len(msg.payload)]

\* _process_client that also has the branches of the worker endpoint.
process_client_any_type(msg, client_addr) ==
    /\ received_metrics' = Counted(msg)
    /\ CASE msg.msg_type = "TASK" ->
               HandleTask(msg.sequence, msg.payload, client_addr)
         [] msg.msg_type = "HEALTH" ->
               HandleHealthRequest(msg.sequence, client_addr)
         [] msg.msg_type = "HEARTBEAT" ->
               HandleHeartbeat(client_addr, msg.payload)
         [] msg.msg_type = "RESULT" ->
               HandleResult(msg.sequence, msg.payload, client_addr) /\ UNCHANGED inflight
         [] msg.msg_type = "CHUNK" ->
               HandleChunk(msg, client_addr) /\ UNCHANGED wire
         [] msg.msg_type = "ERROR" ->
               HandleWorkerError(msg.sequence, msg.payload, client_addr)
               /\ UNCHANGED inflight

\* _process_client once recv has returned (msg, client_addr).
process_client(msg, client_addr) ==
    /\ received_metrics' = Counted(msg)
    /\ CASE msg.msg_type = "TASK" ->
               HandleTask(msg.sequence, msg.payload, client_addr)
         [] msg.msg_type = "HEALTH" ->
               HandleHealthRequest(msg.sequence, client_addr)
         [] OTHER -> Ignored

\* _process_internal once recv has returned (msg, addr).  A RESULT or ERROR
\* is the answer to the TASKs of that sequence that were with workers.
process_internal(msg, addr) ==
    /\ received_metrics' = Counted(msg)
    /\ CASE msg.msg_type = "HEARTBEAT" ->
               HandleHeartbeat(addr, msg.payload)
         [] msg.msg_type = "RESULT" ->
               /\ HandleResult(msg.sequence, msg.payload, addr)
               /\ inflight' = {t \in inflight : t.sequence # msg.sequence}
         [] msg.msg_type = "CHUNK" ->
               HandleChunk(msg, addr) /\ UNCHANGED wire
         [] msg.msg_type = "ERROR" ->
               /\ HandleWorkerError(msg.sequence, msg.payload, addr)
               /\ inflight' = {t \in inflight : t.sequence # msg.sequence}
         [] OTHER -> Ignored

\* The datagrams that reach either endpoint: one of each type, with
\* sequence 1; the CHUNK is the first of two.
MessageTypes == {"HEARTBEAT", "TASK", "RESULT", "CHUNK", "HEALTH", "ERROR"}

PayloadOf(msg_type) ==
    CASE msg_type = "HEARTBEAT" -> <<55, 55, 55, 57>>
      [] msg_type = "TASK" -> <<104, 105>>
      [] msg_type = "RESULT" -> <<72, 73>>
      [] msg_type = "CHUNK" -> ChunkPayload(2, 0, Checksum(<<72, 73>>), <<72>>)
      [] msg_type = "HEALTH" -> <<>>
      [] msg_type = "ERROR" -> <<0, 9, 33>>

EndpointMessages == {DCFMessage(msg_type, 1, PayloadOf(msg_type)) : msg_type \in MessageTypes}

EndpointSenders == {<<"10.0.0.1", 7779>>, <<"10.0.1.1", 5000>>}

\* A datagram arrives on the client endpoint.
ClientDatagram ==
    \E msg \in EndpointMessages, addr \in EndpointSenders :
        /\ received_metrics.messages_received < MaxReceived
        /\ process_client(msg, addr)
        /\ accepted' <= MaxTasks

\* A datagram arrives on the worker endpoint.
WorkerDatagram ==
    \E msg \in EndpointMessages, addr \in EndpointSenders :
        /\ received_metrics.messages_received < MaxReceived
        /\ process_internal(msg, addr)

EndpointNext == ClientDatagram \/ WorkerDatagram

EndpointSpec == ChunkInit /\ [][EndpointNext]_vars

\* ------------------------------------------------ the two threads, step by step
\* The handlers and the maintenance loop as sequences of steps: each step is
\* one call on the registry or the tracker (atomic under that object's lock),
\* one access to the chunk-assembler map (no lock), or one send.  The main
\* thread runs _run and, on SIGINT or SIGTERM, shutdown() inside the signal
\* handler, between any two of its steps; the maintenance thread is a daemon
\* and runs for as long as the main thread does.
ThreadSeqs == {1}

ThreadClient == <<"10.0.1.1", 5000>>

MainAt(at, msg, local) ==
    [threads EXCEPT !.main = [at |-> at, msg |-> msg, local |-> local]]

MainAtPoll == MainAt("poll", <<>>, <<>>)

MaintenanceAt(at, stale_chunks) ==
    [threads EXCEPT !.maintenance = [at |-> at, stale_chunks |-> stale_chunks]]

\* recv returned a datagram: the loop is alive and the sockets are open.
Receives == running /\ ~shutdown /\ threads.main.at = "poll"

\* HeadController.shutdown, called from the signal handler.
Shutdown ==
    /\ running
    /\ shutdown' = TRUE
    /\ out' = <<>>
    /\ UNCHANGED <<now, workers, rr_index, requests, max_pending, running,
                   inflight, accepted, metrics, chunk_assemblers, wire, codec,
                   received_metrics, threads>>

\* _run: the loop test finds _shutdown set and the main thread returns.
MainStops ==
    /\ running
    /\ shutdown
    /\ threads.main.at = "poll"
    /\ running' = FALSE
    /\ out' = <<>>
    /\ UNCHANGED <<now, workers, rr_index, requests, max_pending, inflight,
                   accepted, metrics, chunk_assemblers, wire, codec,
                   received_metrics, shutdown, threads>>

ThreadTick == running /\ Tick

ThreadHeartbeat == Receives /\ ChunkHeartbeat

\* _handle_task, first step: get_worker; with no worker the refusal is sent.
TaskArrives ==
    \E sequence \in ThreadSeqs, payload \in TaskPayloads :
        LET pick == get_worker(workers, rr_index, now, TRUE)
        IN  /\ Receives
            /\ accepted < MaxTasks
            /\ rr_index' = pick.rr_index
            /\ IF pick.addr = None
               THEN /\ out' = <<Datagram("client", ThreadClient,
                                         DCFMessage_error(sequence, "NO_WORKERS"))>>
                    /\ UNCHANGED threads
               ELSE /\ out' = <<>>
                    /\ threads' = MainAt("track", DCFMessage("TASK", sequence, payload),
                                         pick.addr[1])
            /\ UNCHANGED <<now, workers, requests, max_pending, running, inflight,
                           accepted, metrics, chunk_assemblers, wire, codec,
                           received_metrics, shutdown>>

\* _handle_task, second step: tracker.add, then assign_task and the send to
\* the worker.  A send on a socket shutdown() has closed raises.
TaskTracked ==
    LET msg == threads.main.msg
        worker_addr == threads.main.local
        added == add(requests, msg.sequence, ThreadClient, worker_addr,
                     Len(msg.payload), now)
    IN  /\ running
        /\ threads.main.at = "track"
        /\ threads' = MainAtPoll
        /\ IF ~added.ok
           THEN /\ out' = IF shutdown THEN <<>>
                          ELSE <<Datagram("client", ThreadClient,
                                          DCFMessage_error(msg.sequence, "WORKER_BUSY"))>>
                /\ UNCHANGED <<requests, workers, inflight, accepted>>
           ELSE /\ requests' = added.requests
                /\ workers' = assign_task(workers, worker_addr, msg.sequence)
                /\ IF shutdown
                   THEN /\ out' = <<>>
                        /\ UNCHANGED <<inflight, accepted>>
                   ELSE /\ out' = <<Datagram("internal", worker_addr, msg)>>
                        /\ inflight' = inflight \cup
                               {Forwarded(msg.sequence, worker_addr, ThreadClient, now)}
                        /\ accepted' = accepted + 1
        /\ UNCHANGED <<now, rr_index, max_pending, running, metrics,
                       chunk_assemblers, wire, codec, received_metrics, shutdown>>

\* _handle_result and _handle_worker_error, first step: tracker.complete.
Completes(msg) ==
    LET done == complete(requests, msg.sequence)
    IN  /\ requests' = done.requests
        /\ threads' = IF done.request = None THEN MainAtPoll
                      ELSE MainAt("deliver", msg, done.request[1])

ResultArrives ==
    \E t \in inflight, payload \in ResultPayloads :
        /\ Receives
        /\ Answered(t)
        /\ Completes(DCFMessage("RESULT", t.sequence, payload))
        /\ out' = <<>>
        /\ UNCHANGED <<now, workers, rr_index, max_pending, running, accepted,
                       metrics, chunk_assemblers, wire, codec, received_metrics,
                       shutdown>>

ErrorArrives ==
    \E t \in inflight, payload \in WorkerErrorPayloads :
        /\ Receives
        /\ Answered(t)
        /\ Completes(DCFMessage("ERROR", t.sequence, payload))
        /\ out' = <<>>
        /\ UNCHANGED <<now, workers, rr_index, max_pending, running, accepted,
                       metrics, chunk_assemblers, wire, codec, received_metrics,
                       shutdown>>

\* _handle_result and _handle_worker_error, second step: complete_task, the
\* send to the client, the counters.  The send raises on a closed socket and
\* the counters are then not reached.
Delivers ==
    LET msg == threads.main.msg
        request == threads.main.local
        success == msg.msg_type = "RESULT"
        latency_ms == IF success THEN (now - request.created_at) * 1000 ELSE 0
    IN  /\ running
        /\ threads.main.at = "deliver"
        /\ threads' = MainAtPoll
        /\ workers' = complete_task(workers, request.worker_addr, latency_ms, success)
        /\ IF shutdown
           THEN /\ out' = <<>>
                /\ UNCHANGED metrics
           ELSE IF success
           THEN /\ out' = send_chunked("client", msg, request.client_addr)
                /\ metrics' = [metrics EXCEPT !.tasks_processed = @ + 1]
           ELSE /\ out' = <<Datagram("client", request.client_addr, msg)>>
                /\ metrics' = [metrics EXCEPT !.tasks_failed = @ + 1]
        /\ UNCHANGED <<now, rr_index, requests, max_pending, running, inflight,
                       accepted, chunk_assemblers, wire, codec, received_metrics,
                       shutdown>>

\* _handle_chunk, first step: parse_chunk, and the assembler is inserted if
\* the map has none for the sequence.
ChunkStored ==
    \E c \in wire :
        LET parsed == parse_chunk(c.msg)
            chunk == parsed[1]
            s == c.msg.sequence
        IN  /\ Receives
            /\ wire' = wire \ {c}
            /\ out' = <<>>
            /\ IF parsed = None
               THEN UNCHANGED <<chunk_assemblers, threads>>
               ELSE /\ chunk_assemblers' =
                           IF s \in DOMAIN chunk_assemblers THEN chunk_assemblers
                           ELSE [k \in DOMAIN chunk_assemblers \cup {s} |->
                                    IF k = s
                                    THEN ChunkAssembler(chunk.total, chunk.checksum, now)
                                    ELSE chunk_assemblers[k]]
                    /\ threads' = MainAt("chunk_lookup", c.msg, <<>>)
            /\ UNCHANGED <<now, workers, rr_index, requests, max_pending, running,
                           inflight, accepted, metrics, codec, received_metrics,
                           shutdown>>

\* _handle_chunk, second step: the assembler is looked up in the map (a
\* KeyError ends the handler in its except clause) and add_chunk is called.
ChunkAdded ==
    LET msg == threads.main.msg
        s == msg.sequence
        chunk == parse_chunk(msg)[1]
        added == add_chunk(chunk_assemblers[s], chunk.idx, chunk.data)
    IN  /\ running
        /\ threads.main.at = "chunk_lookup"
        /\ out' = <<>>
        /\ IF s \notin DOMAIN chunk_assemblers
           THEN /\ threads' = MainAtPoll
                /\ UNCHANGED chunk_assemblers
           ELSE /\ chunk_assemblers' = [chunk_assemblers EXCEPT ![s] = added.assembler]
                /\ threads' = IF added.complete
                              THEN MainAt("chunk_del", msg, added.assembler)
                              ELSE MainAtPoll
        /\ UNCHANGED <<now, workers, rr_index, requests, max_pending, running,
                       inflight, accepted, metrics, wire, codec, received_metrics,
                       shutdown>>

\* _handle_chunk, third step: assemble, then del on the map (a KeyError ends
\* the handler in its except clause); an assembled payload goes on as a
\* RESULT.
ChunkRemoved ==
    LET msg == threads.main.msg
        s == msg.sequence
        complete_payload == assemble(threads.main.local)
    IN  /\ running
        /\ threads.main.at = "chunk_del"
        /\ out' = <<>>
        /\ IF s \notin DOMAIN chunk_assemblers
           THEN /\ threads' = MainAtPoll
                /\ UNCHANGED chunk_assemblers
           ELSE /\ chunk_assemblers' =
                       [k \in DOMAIN chunk_assemblers \ {s} |-> chunk_assemblers[k]]
                /\ threads' = IF complete_payload # None /\ complete_payload[1] # <<>>
                              THEN MainAt("result",
                                          DCFMessage("RESULT", s, complete_payload[1]),
                                          <<>>)
                              ELSE MainAtPoll
        /\ UNCHANGED <<now, workers, rr_index, requests, max_pending, running,
                       inflight, accepted, metrics, wire, codec, received_metrics,
                       shutdown>>

\* _handle_chunk, last step: _handle_result on the synthetic RESULT.
ChunkCompletes ==
    /\ running
    /\ threads.main.at = "result"
    /\ Completes(threads.main.msg)
    /\ out' = <<>>
    /\ UNCHANGED <<now, workers, rr_index, max_pending, running, inflight,
                   accepted, metrics, chunk_assemblers, wire, codec,
                   received_metrics, shutdown>>

ThreadChunked == running /\ WorkerChunked

\* _maintenance_loop: the sleep is over; prune_stale.
MaintenancePrunes ==
    /\ running
    /\ threads.maintenance.at = "sleep"
    /\ workers' = prune_stale(workers, now).workers
    /\ threads' = MaintenanceAt("expire", {})
    /\ out' = <<>>
    /\ UNCHANGED <<now, rr_index, requests, max_pending, running, inflight,
                   accepted, metrics, chunk_assemblers, wire, codec,
                   received_metrics, shutdown>>

\* _maintenance_loop: cleanup_expired.
MaintenanceExpires ==
    /\ running
    /\ threads.maintenance.at = "expire"
    /\ requests' = cleanup_expired(requests, now).requests
    /\ inflight' = {[t EXCEPT !.swept = t.swept \/ (IsPending(t, requests)
                                                    /\ ~IsPending(t, requests'))]
                    : t \in inflight}
    /\ threads' = MaintenanceAt("iterate", DOMAIN chunk_assemblers)
    /\ out' = <<>>
    /\ UNCHANGED <<now, workers, rr_index, max_pending, running, accepted,
                   metrics, chunk_assemblers, wire, codec, received_metrics,
                   shutdown>>

\* _maintenance_loop: the comprehension over _chunk_assemblers.items(), which
\* began at the keys in stale_chunks, ends.  If the main thread has inserted
\* or deleted a key meanwhile, the iteration raises RuntimeError, which ends
\* the thread, or it goes unnoticed and the list holds the stale assemblers
\* that are there.
MaintenanceLists ==
    LET stale_chunks == {s \in DOMAIN chunk_assemblers :
                            is_stale(chunk_assemblers[s], now)}
    IN  /\ running
        /\ threads.maintenance.at = "iterate"
        /\ \/ threads' = MaintenanceAt("delete", stale_chunks)
           \/ /\ DOMAIN chunk_assemblers # threads.maintenance.stale_chunks
              /\ threads' = MaintenanceAt("crashed", {})
        /\ out' = <<>>
        /\ UNCHANGED <<now, workers, rr_index, requests, max_pending, running,
                       inflight, accepted, metrics, chunk_assemblers, wire, codec,
                       received_metrics, shutdown>>

\* _maintenance_loop: del _chunk_assemblers[seq] for the next seq of the
\* list; a KeyError ends the thread.
MaintenanceDeletes ==
    /\ running
    /\ threads.maintenance.at = "delete"
    /\ threads.maintenance.stale_chunks # {}
    /\ LET seq == CHOOSE s \in threads.maintenance.stale_chunks :
                      \A k \in threads.maintenance.stale_chunks : s <= k
       IN  IF seq \in DOMAIN chunk_assemblers
           THEN /\ chunk_assemblers' =
                       [k \in DOMAIN chunk_assemblers \ {seq} |-> chunk_assemblers[k]]
                /\ threads' = MaintenanceAt("delete",
                                            threads.maintenance.stale_chunks \ {seq})
           ELSE /\ threads' = MaintenanceAt("crashed", {})
                /\ UNCHANGED chunk_assemblers
    /\ out' = <<>>
    /\ UNCHANGED <<now, workers, rr_index, requests, max_pending, running,
                   inflight, accepted, metrics, wire, codec, received_metrics,
                   shutdown>>

\* _maintenance_loop: the loop test, and the next sleep unless _shutdown is
\* set.
MaintenanceLoops ==
    /\ running
    /\ threads.maintenance.at = "delete"
    /\ threads.maintenance.stale_chunks = {}
    /\ threads' = MaintenanceAt(IF shutdown THEN "stopped" ELSE "sleep", {})
    /\ out' = <<>>
    /\ UNCHANGED <<now, workers, rr_index, requests, max_pending, running,
                   inflight, accepted, metrics, chunk_assemblers, wire, codec,
                   received_metrics, shutdown>>

ThreadNext ==
    \/ ThreadTick
    \/ Shutdown
    \/ MainStops
    \/ ThreadHeartbeat
    \/ TaskArrives
    \/ TaskTracked
    \/ ResultArrives
    \/ ErrorArrives
    \/ Delivers
    \/ ThreadChunked
    \/ ChunkStored
    \/ ChunkAdded
    \/ ChunkRemoved
    \/ ChunkCompletes
    \/ MaintenancePrunes
    \/ MaintenanceExpires
    \/ MaintenanceLists
    \/ MaintenanceDeletes
    \/ MaintenanceLoops

ThreadSpec == ChunkInit /\ [][ThreadNext]_vars

\* The codec on its own: a message is serialized, the datagram may lose its
\* last byte on the way, and what arrives is deserialized.
CodecMessages ==
    {Message(msg_type, sequence, timestamp, payload) :
        msg_type \in {1, 2, 255},
        sequence \in {0, 258, 2147483647},
        timestamp \in {0, 65537, 2147483647},
        payload \in {<<>>, <<0>>, <<255, 17>>}}

CodecInit ==
    /\ now = 0
    /\ workers = <<>>
    /\ rr_index = 0
    /\ requests = <<>>
    /\ max_pending = 2
    /\ running = TRUE
    /\ inflight = {}
    /\ accepted = 0
    /\ out = <<>>
    /\ metrics = [tasks_processed |-> 0, tasks_failed |-> 0]
    /\ chunk_assemblers = <<>>
    /\ wire = {}
    /\ received_metrics = NoneReceived
    /\ shutdown = FALSE
    /\ threads = BetweenSteps
    /\ \E m \in CodecMessages :
           codec = [msg |-> m, data |-> <<>>, decoded |-> None, intact |-> TRUE,
                    pc |-> "new"]

controller == <<now, workers, rr_index, requests, max_pending, running,
                inflight, accepted, out, metrics, chunk_assemblers, wire,
                received_metrics, shutdown, threads>>

Encode ==
    /\ codec.pc = "new"
    /\ codec' = [codec EXCEPT !.data = serialize(codec.msg), !.pc = "sent"]
    /\ UNCHANGED controller

Truncate ==
    /\ codec.pc = "sent"
    /\ codec.intact
    /\ codec' = [codec EXCEPT !.data = SubSeq(codec.data, 1, Len(codec.data) - 1),
                              !.intact = FALSE]
    /\ UNCHANGED controller

Decode ==
    /\ codec.pc = "sent"
    /\ codec' = [codec EXCEPT !.decoded = deserialize(codec.data), !.pc = "done"]
    /\ UNCHANGED controller

CodecNext == Encode \/ Truncate \/ Decode

CodecSpec == CodecInit /\ [][CodecNext]_vars

\* ======================================================== the claims
HealthyAt(w, t) == t - w.last_heartbeat < WORKER_TIMEOUT

SomeHealthy == \E i \in 1..Len(workers) : HealthyAt(workers[i], now)

Pending == DOMAIN requests

Full == Cardinality(Pending) = max_pending

ErrorTo(client_addr, sequence, code) ==
    [sock |-> "client", to |-> client_addr,
     msg |-> [msg_type |-> "ERROR", sequence |-> sequence,
              payload |-> ErrorCodeBytes(code)]]

TaskTo(worker_addr, sequence, payload) ==
    [sock |-> "internal", to |-> worker_addr,
     msg |-> [msg_type |-> "TASK", sequence |-> sequence, payload |-> payload]]

SentToWorkers(o) == {i \in 1..Len(o) : o[i].sock = "internal"}

\* C1: a RESULT delivered to a client is the answer to the TASK that this
\* client submitted with that sequence: when a worker answers the forwarded
\* TASK t, whatever reaches a client goes to t's submitter, with t's sequence
\* and the worker's payload.
C1_ResultGoesToSubmitter ==
    [][\A t \in inflight, payload \in ResultPayloads :
          (Answered(t) /\ HandleResult(t.sequence, payload, t.worker))
          => \A i \in 1..Len(out') :
                 /\ out'[i].to = t.origin
                 /\ out'[i].msg.sequence = t.sequence
                 /\ out'[i].msg.payload = payload]_vars

\* C2: a TASK arriving while a healthy worker exists and the tracker is below
\* MAX_PENDING is recorded for its client and the picked worker, makes it the
\* worker's current_task, and is forwarded as exactly one TASK datagram with
\* the same sequence and payload; nothing goes to the client.
C2_TaskDispatched ==
    [][\A sequence \in Seqs, payload \in TaskPayloads, client_addr \in ClientAddrs :
          (/\ HandleTask(sequence, payload, client_addr)
           /\ SomeHealthy
           /\ Cardinality(Pending) < max_pending)
          => /\ sequence \in DOMAIN requests'
             /\ requests'[sequence].client_addr = client_addr
             /\ \E i \in 1..Len(workers') :
                    /\ workers'[i].addr = requests'[sequence].worker_addr
                    /\ workers'[i].current_task = <<sequence>>
             /\ out' = <<TaskTo(requests'[sequence].worker_addr, sequence, payload)>>]_vars

C2_Witness ==
    \E sequence \in Pending, i \in 1..Len(workers) :
        /\ out = <<TaskTo(workers[i].addr, sequence, <<104, 105>>)>>
        /\ workers[i].current_task = <<sequence>>
        /\ requests[sequence].worker_addr = workers[i].addr

\* C3: a TASK arriving while no registered worker is healthy (none registered,
\* or all stale, pruned or not) is answered with ERROR NO_WORKERS of the same
\* sequence; nothing is sent to a worker and the tracker is unchanged.
C3_NoWorkers ==
    [][\A sequence \in Seqs, payload \in TaskPayloads, client_addr \in ClientAddrs :
          (HandleTask(sequence, payload, client_addr) /\ ~SomeHealthy)
          => /\ out' = <<ErrorTo(client_addr, sequence, "NO_WORKERS")>>
             /\ requests' = requests]_vars

\* A NO_WORKERS refusal while stale workers are still registered and a request
\* is pending.
C3_Witness ==
    /\ Len(out) = 1
    /\ out[1].msg.msg_type = "ERROR"
    /\ out[1].msg.payload = <<0, 1>>
    /\ workers # <<>>
    /\ Pending # {}

\* C4 as stated: every TASK arriving while the tracker holds MAX_PENDING
\* requests is answered with ERROR WORKER_BUSY, whatever the registry holds.
C4_Original ==
    [][\A sequence \in Seqs, payload \in TaskPayloads, client_addr \in ClientAddrs :
          (HandleTask(sequence, payload, client_addr) /\ Full)
          => out' = <<ErrorTo(client_addr, sequence, "WORKER_BUSY")>>]_vars

\* C4: a TASK arriving while the tracker holds MAX_PENDING requests is never
\* forwarded; it is answered with one ERROR of the same sequence, WORKER_BUSY
\* when some worker is healthy and NO_WORKERS when none is.
C4_FullRefuses ==
    [][\A sequence \in Seqs, payload \in TaskPayloads, client_addr \in ClientAddrs :
          (HandleTask(sequence, payload, client_addr) /\ Full)
          => /\ SomeHealthy =>
                    out' = <<ErrorTo(client_addr, sequence, "WORKER_BUSY")>>
             /\ ~SomeHealthy =>
                    out' = <<ErrorTo(client_addr, sequence, "NO_WORKERS")>>
             /\ SentToWorkers(out') = {}
             /\ requests' = requests]_vars

C4_Witness ==
    /\ Full
    /\ Len(out) = 1
    /\ out[1].msg.msg_type = "ERROR"
    /\ out[1].msg.payload = <<0, 2>>

\* C5: add called for a sequence that is already pending returns false and
\* leaves the existing record as it was.
C5_CollisionRejected ==
    [][\A sequence \in Seqs, payload \in TaskPayloads, client_addr \in ClientAddrs :
          (/\ HandleTask(sequence, payload, client_addr)
           /\ SomeHealthy
           /\ sequence \in Pending)
          => /\ out' = <<ErrorTo(client_addr, sequence, "WORKER_BUSY")>>
             /\ requests'[sequence] = requests[sequence]]_vars

\* C6: the tracker never holds more than MAX_PENDING requests; add at exactly
\* MAX_PENDING returns false and changes nothing, add below MAX_PENDING
\* returns true and inserts the record.
C6_Capacity ==
    /\ [](Cardinality(Pending) <= max_pending)
    /\ [][\A sequence \in Seqs, payload \in TaskPayloads, client_addr \in ClientAddrs :
             (HandleTask(sequence, payload, client_addr) /\ SomeHealthy)
             => LET worker_addr == get_worker(workers, rr_index, now, TRUE).addr[1]
                    r == add(requests, sequence, client_addr, worker_addr,
                             Len(payload), now)
                IN  IF Full
                    THEN ~r.ok /\ r.requests = requests /\ requests' = requests
                    ELSE /\ r.ok
                         /\ requests' = r.requests
                         /\ DOMAIN requests' = Pending \cup {sequence}
                         /\ requests'[sequence] =
                                [client_addr |-> client_addr,
                                 worker_addr |-> worker_addr,
                                 created_at |-> now,
                                 payload_size |-> Len(payload)]
                         /\ \A s \in Pending \ {sequence} :
                                requests'[s] = requests[s]]_vars

\* The tracker is full right after an add that filled it.
C6_Witness ==
    /\ Full
    /\ Len(out) = 1
    /\ out[1].msg.msg_type = "TASK"

\* The tracker holds for sequence s the record created at t0.
PendingSince(s, t0) == s \in Pending /\ requests[s].created_at = t0

\* Every pending request created early enough for the clock to pass its
\* timeout eventually leaves the tracker.
C7_Expires ==
    \A s \in Seqs : \A t0 \in 0..(MaxTime - REQUEST_TIMEOUT - 1) :
        PendingSince(s, t0) ~> ~PendingSince(s, t0)

\* A sequence leaves the tracker only when a RESULT or ERROR for it is
\* handled or when the sweep finds it expired, and the sweep sends nothing:
\* no datagram to the client, no TASK to another worker.
C7_RemovedBySweepSilently ==
    [][\A s \in Pending :
          s \notin DOMAIN requests'
          => \/ \E t \in inflight : t.sequence = s /\ Answered(t)
             \/ /\ Maintenance
                /\ now - requests[s].created_at > REQUEST_TIMEOUT
                /\ out' = <<>>]_vars

\* A RESULT for a TASK whose request the sweep removed is dropped.
C7_LateResultDropped ==
    [][\A t \in inflight, payload \in ResultPayloads :
          (Answered(t) /\ HandleResult(t.sequence, payload, t.worker) /\ t.swept)
          => out' = <<>>]_vars

\* A RESULT for a TASK whose request the sweep removed is dropped, unless a
\* later TASK with the same sequence is pending when it arrives.
C7_LateResultDroppedUnlessReused ==
    [][\A t \in inflight, payload \in ResultPayloads :
          (/\ Answered(t)
           /\ HandleResult(t.sequence, payload, t.worker)
           /\ t.swept
           /\ t.sequence \notin Pending)
          => out' = <<>> /\ requests' = requests /\ workers' = workers]_vars

\* C7 as stated: a dispatched TASK that is never answered is eventually
\* removed by the maintenance sweep, silently and without being reassigned,
\* and a RESULT for it arriving after the removal is dropped.
C7_Original ==
    C7_Expires /\ C7_RemovedBySweepSilently /\ C7_LateResultDropped

\* C7: as above, but a RESULT arriving after the removal is dropped only while
\* no later TASK with the same sequence is pending; if one is, the late
\* RESULT completes that request.
C7_ExpirySweep ==
    C7_Expires /\ C7_RemovedBySweepSilently /\ C7_LateResultDroppedUnlessReused

\* The sweep has removed the request of a TASK whose worker never answered.
C7_Witness ==
    \E t \in inflight : t.swept /\ t.sequence \notin Pending /\ out = <<>>

\* C8: right after cleanup_expired returns k, no request older than
\* REQUEST_TIMEOUT remains, every request of age at most REQUEST_TIMEOUT is
\* still there unchanged, and k is the number of records removed.
C8_CleanupExpired ==
    [][Maintenance
       => /\ \A s \in DOMAIN requests' :
                 ~(now - requests'[s].created_at > REQUEST_TIMEOUT)
          /\ \A s \in Pending :
                 now - requests[s].created_at <= REQUEST_TIMEOUT
                 => s \in DOMAIN requests' /\ requests'[s] = requests[s]
          /\ DOMAIN requests' \subseteq Pending
          /\ cleanup_expired(requests, now).count =
                 Cardinality(Pending) - Cardinality(DOMAIN requests')]_vars

\* The sweep removed an expired request and kept one that is at the timeout
\* exactly.
C8_Witness ==
    /\ \E t \in inflight : t.swept /\ t.sequence \notin Pending
    /\ \E s \in Pending : now - requests[s].created_at = REQUEST_TIMEOUT
    /\ out = <<>>

\* C9: right after prune_stale returns k, every registered worker is healthy,
\* every worker that was healthy is retained unchanged, and k is the number
\* of workers removed.
C9_PruneStale ==
    [][Maintenance
       => /\ \A j \in 1..Len(workers') : HealthyAt(workers'[j], now)
          /\ \A i \in 1..Len(workers) :
                 HealthyAt(workers[i], now)
                 => \E j \in 1..Len(workers') : workers'[j] = workers[i]
          /\ \A j \in 1..Len(workers') :
                 \E i \in 1..Len(workers) : workers[i] = workers'[j]
          /\ prune_stale(workers, now).count = Len(workers) - Len(workers')]_vars

\* A worker that was sent a TASK has been pruned; one that heartbeated a tick
\* ago is still registered.
C9_Witness ==
    /\ \E t \in inflight : ~Registered(workers, t.worker)
    /\ \E i \in 1..Len(workers) : now - workers[i].last_heartbeat = 1
    /\ out = <<>>

\* C10: get_worker returns none exactly when no registered worker is healthy,
\* otherwise the address of a registered healthy worker, and never fails; a
\* TASK is forwarded only to a worker that is registered and healthy.
C10_PicksHealthy ==
    /\ \A prefer_idle \in BOOLEAN :
           LET r == get_worker(workers, rr_index, now, prefer_idle)
           IN  /\ ~r.raised
               /\ r.addr = None <=> ~SomeHealthy
               /\ r.addr # None
                  => \E i \in 1..Len(workers) :
                         /\ workers[i].addr = r.addr[1]
                         /\ HealthyAt(workers[i], now)
    /\ running
    /\ \A k \in SentToWorkers(out) :
           \E i \in 1..Len(workers) :
               /\ workers[i].addr = out[k].to
               /\ HealthyAt(workers[i], now)

\* The round-robin index was left at 1 by a pick among two workers; since then
\* one of them went stale (and is not pruned yet), and the other is busy, so
\* the next lookup takes the round-robin slot of a healthy set of one.
C10_Witness ==
    /\ rr_index = 1
    /\ \E i, j \in 1..Len(workers) :
           /\ ~HealthyAt(workers[i], now)
           /\ HealthyAt(workers[j], now)
           /\ workers[j].current_task # <<>>

\* The registered workers that are healthy now, and those of them without a
\* current task, as positions in registration order.
HealthyIdx == {i \in 1..Len(workers) : HealthyAt(workers[i], now)}

IdleIdx == {i \in HealthyIdx : workers[i].current_task = <<>>}

First(S) == CHOOSE i \in S : \A j \in S : i <= j

\* The k-th (from 0) healthy worker in registration order.
HealthySlot(k) ==
    CHOOSE i \in HealthyIdx : Cardinality({j \in HealthyIdx : j < i}) = k

\* C11: with prefer_idle, while some healthy worker has no current task
\* get_worker returns the first such worker in registration order and leaves
\* the round-robin index alone, so a TASK never goes to a busy worker while an
\* idle healthy one exists; when every healthy worker is busy it advances the
\* index modulo the healthy set and returns the worker in that slot.
C11_PreferIdle ==
    /\ [](LET r == get_worker(workers, rr_index, now, TRUE)
              slot == (rr_index + 1) % Cardinality(HealthyIdx)
          IN  /\ IdleIdx # {}
                 => /\ r.addr = <<workers[First(IdleIdx)].addr>>
                    /\ r.rr_index = rr_index
              /\ (IdleIdx = {} /\ HealthyIdx # {})
                 => /\ r.rr_index = slot
                    /\ r.addr = <<workers[HealthySlot(slot)].addr>>)
    /\ [][\A sequence \in Seqs, payload \in TaskPayloads, client_addr \in ClientAddrs :
             HandleTask(sequence, payload, client_addr)
             => /\ IdleIdx # {}
                   => /\ rr_index' = rr_index
                      /\ \A k \in SentToWorkers(out') :
                             out'[k].to = workers[First(IdleIdx)].addr
                /\ (IdleIdx = {} /\ HealthyIdx # {})
                   => /\ rr_index' = (rr_index + 1) % Cardinality(HealthyIdx)
                      /\ \A k \in SentToWorkers(out') :
                             out'[k].to = workers[HealthySlot(rr_index')].addr]_vars

\* Two workers are busy with one task each (the second TASK went to the idle
\* second worker), and a pick made while both were busy advanced the index.
C11_Witness ==
    /\ Len(workers) = 2
    /\ workers[1].current_task # <<>>
    /\ workers[2].current_task # <<>>
    /\ workers[1].current_task # workers[2].current_task
    /\ rr_index = 1

\* C12: an ERROR from a worker for a pending sequence removes the request,
\* clears the assigned worker's current_task and adds one to its tasks_failed
\* (tasks_completed and avg_latency_ms stay), sends the same ERROR (sequence
\* and payload) to the request's client, and adds one to the counter
\* tasks_failed while tasks_processed stays.
C12_WorkerError ==
    [][\A sequence \in Pending, payload \in WorkerErrorPayloads, addr \in WorkerAddrs :
          HandleWorkerError(sequence, payload, addr)
          => LET request == requests[sequence]
             IN  /\ DOMAIN requests' = Pending \ {sequence}
                 /\ \A s \in DOMAIN requests' : requests'[s] = requests[s]
                 /\ Len(workers') = Len(workers)
                 /\ \A i \in 1..Len(workers) :
                        IF workers[i].addr = request.worker_addr
                        THEN /\ workers'[i].current_task = <<>>
                             /\ workers'[i].tasks_failed = workers[i].tasks_failed + 1
                             /\ workers'[i].tasks_completed = workers[i].tasks_completed
                             /\ workers'[i].avg_latency_ms = workers[i].avg_latency_ms
                             /\ workers'[i].addr = workers[i].addr
                             /\ workers'[i].last_heartbeat = workers[i].last_heartbeat
                        ELSE workers'[i] = workers[i]
                 /\ out' = <<[sock |-> "client", to |-> request.client_addr,
                              msg |-> [msg_type |-> "ERROR", sequence |-> sequence,
                                       payload |-> payload]]>>
                 /\ metrics'.tasks_failed = metrics.tasks_failed + 1
                 /\ metrics'.tasks_processed = metrics.tasks_processed]_vars

\* An ERROR was forwarded to a client and charged to a worker that had
\* completed a task before.
C12_Witness ==
    /\ Len(out) = 1
    /\ out[1].msg.msg_type = "ERROR"
    /\ out[1].msg.payload = <<0, 9, 33>>
    /\ metrics.tasks_failed = 1
    /\ \E i \in 1..Len(workers) :
           /\ workers[i].tasks_failed = 1
           /\ workers[i].tasks_completed = 1
           /\ workers[i].current_task = <<>>

\* Nothing reaches a client, and the tracker, the registry and the counters
\* stay as they are.
Dropped ==
    /\ out' = <<>>
    /\ requests' = requests
    /\ workers' = workers
    /\ metrics' = metrics

\* C13: a RESULT, ERROR or CHUNK from a worker whose sequence has no pending
\* request is dropped: nothing is sent to a client, the tracker, the workers
\* and the counters are unchanged, and the controller keeps no state for that
\* sequence.
C13_OrphanDropped ==
    [][/\ \A sequence \in Seqs \ Pending, addr \in WorkerAddrs :
              /\ \A payload \in ResultPayloads :
                     HandleResult(sequence, payload, addr)
                     => Dropped /\ chunk_assemblers' = chunk_assemblers
              /\ \A payload \in WorkerErrorPayloads :
                     HandleWorkerError(sequence, payload, addr)
                     => Dropped /\ chunk_assemblers' = chunk_assemblers
       /\ \A c \in wire :
              (c.msg.sequence \notin Pending /\ HandleChunk(c.msg, c.from))
              => Dropped /\ c.msg.sequence \notin DOMAIN chunk_assemblers']_vars

\* The chunk c on the wire is the last one of its send still to arrive.
LastOfSend(c) == ~\E d \in wire \ {c} : d.task = c.task /\ d.corrupt = c.corrupt

\* C14: when the last missing chunk of an undamaged chunked result for a
\* pending sequence arrives, the client gets one RESULT with that sequence and
\* exactly the payload the worker split, and the assembler for the sequence is
\* gone, in whatever order the chunks came and whatever came in between.
C14_ChunksReassembled ==
    [][\A c \in wire :
          (/\ HandleChunk(c.msg, c.from)
           /\ wire' = wire \ {c}
           /\ ~c.corrupt
           /\ LastOfSend(c)
           /\ IsPending(c.task, requests))
          => /\ out' = <<[sock |-> "client", to |-> c.task.origin,
                          msg |-> [msg_type |-> "RESULT",
                                   sequence |-> c.task.sequence,
                                   payload |-> c.payload]]>>
             /\ c.msg.sequence \notin DOMAIN chunk_assemblers']_vars

\* With the chunk c the assembler of its sequence holds all its chunks, and
\* their concatenation does not have the recorded checksum.
CompletesDamaged(c) ==
    LET chunk == parse_chunk(c.msg)[1]
        s == c.msg.sequence
        asm == IF s \in DOMAIN chunk_assemblers THEN chunk_assemblers[s]
               ELSE [total_chunks |-> chunk.total, checksum |-> chunk.checksum,
                     received |-> <<>>, created_at |-> now]
        r == add_chunk(asm, chunk.idx, chunk.data)
    IN  r.complete /\ assemble(r.assembler) = None

C16_RoundTrip ==
    (codec.pc = "done" /\ codec.intact)
    => /\ codec.decoded # None
       /\ codec.decoded[1].msg_type = codec.msg.msg_type
       /\ codec.decoded[1].sequence = codec.msg.sequence
       /\ codec.decoded[1].timestamp = codec.msg.timestamp
       /\ codec.decoded[1].payload = codec.msg.payload

\* An ERROR with the largest sequence and a two-byte payload came back from
\* its 19 bytes.
C16_Witness ==
    /\ codec.pc = "done"
    /\ codec.intact
    /\ Len(codec.data) = 19
    /\ codec.msg.msg_type = 255
    /\ codec.msg.sequence = 2147483647
    /\ codec.decoded = <<codec.msg>>

\* C17: in every registry snapshot a registered worker, healthy or not yet
\* pruned, is reported busy and counted in busy_workers exactly when its
\* current_task is set: busy_workers is the number of registered workers with
\* a current_task.
C17_BusyCount ==
    LET snapshot == get_stats(workers, now)
    IN  /\ \A i \in 1..Len(workers) :
               snapshot.workers[i].busy <=> workers[i].current_task # <<>>
        /\ snapshot.busy_workers =
               Cardinality({i \in 1..Len(workers) : workers[i].current_task # <<>>})

\* C18: no failure while one datagram is handled ends the main loop: after
\* any handler the dispatcher is still running.
C18_LoopSurvives ==
    [][/\ \A sequence \in Seqs, payload \in TaskPayloads, client_addr \in ClientAddrs :
              HandleTask(sequence, payload, client_addr) => running'
       /\ \A payload \in FaultHeartbeatPayloads :
              HandleHeartbeat(<<"10.0.0.1", 40000>>, payload) => running'
       /\ \A sequence \in Seqs :
              HandleChunk(DCFMessage("CHUNK", sequence, <<0, 0>>),
                          <<"10.0.0.1", 40000>>) => running'
       /\ \A t \in inflight :
              /\ \A payload \in ResultPayloads :
                     HandleResult(t.sequence, payload, t.worker) => running'
              /\ \A payload \in WorkerErrorPayloads :
                     HandleWorkerError(t.sequence, payload, t.worker) => running']_vars

\* C19: a HEARTBEAT from (ip, src_port) carrying the decimal ASCII of q
\* registers or refreshes the one worker keyed (ip, q), whatever src_port is;
\* a refresh changes last_heartbeat only; a payload that is no decimal integer
\* registers nothing.
C19_HeartbeatKey ==
    [][\A addr \in HeartbeatSources, payload \in HeartbeatPayloads :
          HandleHeartbeat(addr, payload)
          => IF payload = <<55, 55, 55, 57>>
             THEN LET key == <<addr[1], 7779>>
                  IN  /\ Cardinality({i \in 1..Len(workers') :
                                         workers'[i].addr = key}) = 1
                      /\ \A i \in 1..Len(workers') : workers'[i].addr # addr
                      /\ IF \E i \in 1..Len(workers) : workers[i].addr = key
                         THEN /\ Len(workers') = Len(workers)
                              /\ \A i \in 1..Len(workers) :
                                     IF workers[i].addr = key
                                     THEN workers'[i] =
                                              [workers[i] EXCEPT !.last_heartbeat = now]
                                     ELSE workers'[i] = workers[i]
                         ELSE workers' =
                                  Append(workers,
                                         [addr |-> key, last_heartbeat |-> now,
                                          tasks_completed |-> 0, tasks_failed |-> 0,
                                          avg_latency_ms |-> <<0, 1>>,
                                          current_task |-> <<>>])
             ELSE workers' = workers]_vars

\* A worker that completed a task and was given another one before time 2
\* has heartbeated at time 2: the refresh kept its statistics and its task.
C19_Witness ==
    /\ now = 2
    /\ \E i \in 1..Len(workers) :
           /\ workers[i].last_heartbeat = 2
           /\ workers[i].tasks_completed = 1
           /\ workers[i].current_task # <<>>
           /\ workers[i].current_task[1] \in Pending
           /\ requests[workers[i].current_task[1]].created_at < 2

\* C20: the stored round-robin index never decreases.
C20_IndexMonotonic == [][rr_index' >= rr_index]_vars

\* C26: between datagrams a registered worker has a current_task exactly when
\* the tracker holds a pending request assigned to it: it is not busy after
\* its request completed or expired, and not idle while a request dispatched
\* to it is pending.
C26_BusyIffPending ==
    \A i \in 1..Len(workers) :
        workers[i].current_task # <<>>
        <=> \E s \in Pending : requests[s].worker_addr = workers[i].addr

\* The TASK (sequence, client_addr) was refused with the ERROR code.
Refused(sequence, payload, client_addr, code) ==
    /\ HandleTask(sequence, payload, client_addr)
    /\ out' = <<ErrorTo(client_addr, sequence, code)>>

\* C28 as stated: a TASK refused with NO_WORKERS or WORKER_BUSY leaves the
\* pending requests, every worker's record and the round-robin index as they
\* were.
C28_Original ==
    [][\A sequence \in Seqs, payload \in TaskPayloads, client_addr \in ClientAddrs,
          code \in {"NO_WORKERS", "WORKER_BUSY"} :
          Refused(sequence, payload, client_addr, code)
          => /\ requests' = requests
             /\ workers' = workers
             /\ rr_index' = rr_index]_vars

\* C28: a refused TASK leaves the pending requests and every worker's record
\* as they were.  The round-robin index stays on a NO_WORKERS refusal and on a
\* WORKER_BUSY refusal made while some healthy worker is idle; a WORKER_BUSY
\* refusal made while every healthy worker is busy advances it by one modulo
\* the number of healthy workers.
C28_RefusedFrame ==
    [][\A sequence \in Seqs, payload \in TaskPayloads, client_addr \in ClientAddrs :
          /\ Refused(sequence, payload, client_addr, "NO_WORKERS")
             => /\ requests' = requests
                /\ workers' = workers
                /\ rr_index' = rr_index
          /\ Refused(sequence, payload, client_addr, "WORKER_BUSY")
             => /\ requests' = requests
                /\ workers' = workers
                /\ rr_index' = IF IdleIdx # {} THEN rr_index
                               ELSE (rr_index + 1) % Cardinality(HealthyIdx)]_vars

\* Two TASKs were accepted, one for each of two workers while it was idle, so
\* no accepted TASK moved the index; a third was refused with WORKER_BUSY
\* while both were busy, and the index is 1.
C28_Witness ==
    /\ Len(out) = 1
    /\ out[1] = ErrorTo(out[1].to, out[1].msg.sequence, "WORKER_BUSY")
    /\ accepted = 2
    /\ Cardinality(Pending) = 2
    /\ Len(workers) = 2
    /\ workers[1].current_task # <<>>
    /\ workers[2].current_task # <<>>
    /\ workers[1].current_task # workers[2].current_task
    /\ rr_index = 1

\* The pending request for sequence was completed with success or failure:
\* it left the tracker, the others stayed, and the worker it was assigned to,
\* if still registered, was credited and lost its current_task.
CompletedFor(sequence, success) ==
    LET request == requests[sequence]
    IN  /\ DOMAIN requests' = Pending \ {sequence}
        /\ \A s \in DOMAIN requests' : requests'[s] = requests[s]
        /\ Len(workers') = Len(workers)
        /\ \A i \in 1..Len(workers) :
               IF workers[i].addr = request.worker_addr
               THEN /\ workers'[i].current_task = <<>>
                    /\ workers'[i].tasks_completed =
                           workers[i].tasks_completed + (IF success THEN 1 ELSE 0)
                    /\ workers'[i].tasks_failed =
                           workers[i].tasks_failed + (IF success THEN 0 ELSE 1)
               ELSE workers'[i] = workers[i]

\* C27 as stated: a RESULT or ERROR for a pending sequence whose sender is not
\* the worker the request is assigned to leaves the request pending and the
\* workers' statistics unchanged.
C27_Original ==
    [][\A sequence \in Pending, addr \in StrangerAddrs :
          addr # requests[sequence].worker_addr
          => /\ \A payload \in ResultPayloads :
                    (HandleResult(sequence, payload, addr) /\ inflight' = inflight)
                    => requests' = requests /\ workers' = workers
             /\ \A payload \in WorkerErrorPayloads :
                    (HandleWorkerError(sequence, payload, addr) /\ inflight' = inflight)
                    => requests' = requests /\ workers' = workers]_vars

\* C27: a pending request for sequence s is completed by the first RESULT,
\* complete CHUNK set or ERROR with sequence s that arrives on the worker
\* endpoint, whoever sent it: the request leaves the tracker, the answer goes
\* to the request's client, and the worker the request was assigned to (not
\* the sender) is credited.
C27_AnySenderCompletes ==
    [][\A sequence \in Pending, addr \in StrangerAddrs :
          addr # requests[sequence].worker_addr
          => /\ \A payload \in ResultPayloads :
                    ((\/ HandleResult(sequence, payload, addr)
                      \/ HandleChunk(SingleChunk(sequence, payload), addr) /\ wire' = wire)
                     /\ inflight' = inflight)
                    => /\ CompletedFor(sequence, TRUE)
                       /\ out' = <<[sock |-> "client",
                                    to |-> requests[sequence].client_addr,
                                    msg |-> [msg_type |-> "RESULT",
                                             sequence |-> sequence,
                                             payload |-> payload]]>>
                       /\ \A i \in 1..Len(workers') : workers'[i].addr # addr
             /\ \A payload \in WorkerErrorPayloads :
                    (HandleWorkerError(sequence, payload, addr) /\ inflight' = inflight)
                    => /\ CompletedFor(sequence, FALSE)
                       /\ out' = <<[sock |-> "client",
                                    to |-> requests[sequence].client_addr,
                                    msg |-> [msg_type |-> "ERROR",
                                             sequence |-> sequence,
                                             payload |-> payload]]>>]_vars

\* The only TASK accepted is still with its worker, which has not answered,
\* and its request is gone from the tracker: the client was sent a RESULT for
\* it and the worker was credited with it.
C27_Witness ==
    /\ accepted = 1
    /\ \E t \in inflight :
           /\ ~t.swept
           /\ t.sequence \notin Pending
           /\ Len(out) = 1
           /\ out[1].to = t.origin
           /\ out[1].msg.msg_type = "RESULT"
           /\ out[1].msg.sequence = t.sequence
           /\ \E i \in 1..Len(workers) :
                  /\ workers[i].addr = t.worker
                  /\ workers[i].tasks_completed = 1
                  /\ workers[i].current_task = <<>>

\* C21: when an assembler exists for a sequence and a later CHUNK of that
\* sequence reports a total or a checksum other than the recorded one, the
\* assembler is discarded and no RESULT is produced from the buffered chunks.
C21_MismatchDiscards ==
    [][\A sequence \in ChunkSeqs, total \in ChunkTotals, checksum \in ChunkChecksums :
          (/\ Differs(sequence, total, checksum)
           /\ HandleChunk(DCFMessage("CHUNK", sequence,
                                     ChunkPayload(total, 0, checksum, <<72>>)),
                          <<"10.0.0.1", 7779>>)
           /\ wire' = wire)
          => /\ sequence \notin DOMAIN chunk_assemblers'
             /\ out' = <<>>]_vars

\* The datagram msg was counted as received and nothing else happened: no
\* worker registered, no request completed or recorded, no assembler created,
\* nothing sent, no counter of tasks moved.
OnlyCounted(msg) ==
    /\ out' = <<>>
    /\ workers' = workers
    /\ rr_index' = rr_index
    /\ requests' = requests
    /\ chunk_assemblers' = chunk_assemblers
    /\ metrics' = metrics
    /\ running' = running
    /\ received_metrics'.messages_received = received_metrics.messages_received + 1
    /\ received_metrics'.bytes_received =
           received_metrics.bytes_received + Len(msg.payload)

\* C24: a HEARTBEAT, RESULT, CHUNK or ERROR arriving on the client endpoint,
\* and a TASK or HEALTH arriving on the worker endpoint, is ignored: only the
\* received counters change.
C24_WrongEndpointIgnored ==
    [][\A msg \in EndpointMessages, addr \in EndpointSenders :
          /\ (/\ msg.msg_type \in {"HEARTBEAT", "RESULT", "CHUNK", "ERROR"}
              /\ process_client(msg, addr))
             => OnlyCounted(msg)
          /\ (/\ msg.msg_type \in {"TASK", "HEALTH"}
              /\ process_internal(msg, addr))
             => OnlyCounted(msg)]_vars

\* Three datagrams were received: a HEARTBEAT (4 bytes), then a TASK (2
\* bytes) that was accepted, then an ERROR (3 bytes) of the TASK's sequence
\* that changed nothing: the request is pending and no failure was counted.
C24_Witness ==
    /\ received_metrics = [messages_received |-> 3, bytes_received |-> 9]
    /\ accepted = 1
    /\ out = <<>>
    /\ 1 \in Pending
    /\ metrics.tasks_failed = 0
    /\ \E i \in 1..Len(workers) : workers[i].current_task = <<1>>

\* C22: the maintenance thread's accesses to the chunk-assembler map are
\* serialized with the main thread's: the map's keys do not change while the
\* sweep iterates over it, and the sweep does not remove the assembler of a
\* sequence between the main thread's lookup of it and the main thread's own
\* removal of it after the last chunk.
C22_MapSerialized ==
    [][/\ threads.maintenance.at = "iterate"
          => DOMAIN chunk_assemblers' = DOMAIN chunk_assemblers
       /\ (/\ threads.main.at = "chunk_del"
           /\ threads.main.msg.sequence \in DOMAIN chunk_assemblers
           /\ threads'.maintenance # threads.maintenance)
          => threads.main.msg.sequence \in DOMAIN chunk_assemblers']_vars

\* C25: once shutdown() has returned, no TASK is recorded in the tracker or
\* forwarded to a worker, and no step of the maintenance thread changes the
\* registry, the tracker or the chunk-assembler map.
C25_QuietAfterShutdown ==
    [][shutdown
       => /\ \A s \in DOMAIN requests' :
                 s \in DOMAIN requests /\ requests'[s] = requests[s]
          /\ SentToWorkers(out') = {}
          /\ threads'.maintenance # threads.maintenance
             => /\ workers' = workers
                /\ requests' = requests
                /\ chunk_assemblers' = chunk_assemblers]_vars

\* The step is the main thread's tracker.complete returning the record of
\* sequence s.
TakenByComplete(s) ==
    /\ threads.main.at # "deliver"
    /\ threads'.main.at = "deliver"
    /\ threads'.main.msg.sequence = s
    /\ threads'.main.local = requests[s]
    /\ threads'.maintenance = threads.maintenance

\* The step is the maintenance thread's cleanup_expired, s is expired, and
\* nothing is sent.
TakenBySweep(s) ==
    /\ threads.maintenance.at = "expire"
    /\ threads'.maintenance.at # "expire"
    /\ threads'.main = threads.main
    /\ now - requests[s].created_at > REQUEST_TIMEOUT
    /\ out' = <<>>

\* The datagram is a RESULT, or an ERROR a worker sent, going to a client.
Delivery(d) ==
    /\ d.sock = "client"
    /\ \/ d.msg.msg_type = "RESULT"
       \/ d.msg.msg_type = "CHUNK"
       \/ d.msg.msg_type = "ERROR" /\ d.msg.payload \in WorkerErrorPayloads

\* C23: under every interleaving of the main thread and the maintenance
\* thread a pending request leaves the tracker in one step, which is either
\* the main thread's complete or the sweep's cleanup_expired of an expired
\* request; complete removes the record it returns; a RESULT or ERROR reaches
\* a client only from the handler that holds a record complete returned, it
\* is the only datagram of that step, it goes to that record's client with
\* that sequence, and the handler then lets the record go (while the sockets
\* are open it sends exactly one); the sweep sends nothing.
C23_RemovedOnce ==
    [][/\ \A s \in Pending \ DOMAIN requests' :
              TakenByComplete(s) \/ TakenBySweep(s)
       /\ (threads.main.at # "deliver" /\ threads'.main.at = "deliver")
          => /\ threads'.main.msg.sequence \in Pending
             /\ threads'.main.msg.sequence \notin DOMAIN requests'
       /\ \A i \in 1..Len(out') :
              Delivery(out'[i])
              => /\ threads.main.at = "deliver"
                 /\ threads'.main.at = "poll"
                 /\ Len(out') = 1
                 /\ out'[i].to = threads.main.local.client_addr
                 /\ out'[i].msg.sequence = threads.main.msg.sequence
       /\ (threads.main.at = "deliver" /\ threads'.main.at = "poll" /\ ~shutdown)
          => Len(out') = 1 /\ Delivery(out'[1])
       /\ threads'.maintenance # threads.maintenance => out' = <<>>]_vars

\* The main thread holds the record complete returned, of a request old
\* enough to expire, while the maintenance thread is past cleanup_expired in
\* the same sweep: the tracker is empty and nothing has been sent yet.
C23_Witness ==
    /\ threads.main.at = "deliver"
    /\ now - threads.main.local.created_at > REQUEST_TIMEOUT
    /\ threads.maintenance.at = "iterate"
    /\ requests = <<>>
    /\ ~shutdown
    /\ metrics.tasks_processed = 0
    /\ metrics.tasks_failed = 0

====
